---- MODULE Spec2Model ----
(***************************************************************************)
(* Model of upload_app.py: the key sanitizer (sanitize_key over            *)
(* KEY_PATTERNS), the tree transformer (extract_keys, anonymize) and the   *)
(* upload / redact / finalize script that uses them.                       *)
(*                                                                         *)
(* The keys and texts of a document are sequences of code points (see      *)
(* Txt); the names of platforms, files and folders and the ASCII text that *)
(* json.dumps writes are TLA+ strings.                                     *)
(* A JSON value is a tagged record:                                        *)
(*   [t |-> "str", s |-> ...]   [t |-> "num", n |-> ...]                   *)
(*   [t |-> "arr", items |-> <<value, ...>>]                               *)
(*   [t |-> "obj", ents  |-> << <<key, value>>, ... >>]  (keys distinct,   *)
(*   in insertion order, as a Python dict keeps them).                     *)
(***************************************************************************)
EXTENDS Integers, Sequences, FiniteSets, TLC

VARIABLES
    rawKey,     \* sanitize_key: the argument k
    canon,      \* sanitize_key: the returned canonical key
    kpc,        \* sanitize_key: "call" before the call, "ret" after it
    data,       \* the parsed document (line 119/120), argument of both walks
    ppi_set,    \* the redaction set handed to anonymize (line 128)
    keys,       \* extract_keys(data) (line 127)
    red,        \* anonymize(data, ppi_set) (line 128)
    red2,       \* anonymize(red, ppi_set): a second pass over the result
    tpc,        \* tree transformer: which of the calls have returned
    pc,         \* position of the current run of the script, "idle" between runs
    configured, \* drive_service and ROOT_FOLDER_ID are set (lines 26-37)
    uploaded,   \* st.file_uploader widget: the uploaded file or NoFile
    platform,   \* st.sidebar.selectbox widget
    donate_box, \* 'Donate anonymized data for research' checkbox (line 122)
    donate,     \* st.session_state['donate'] (FALSE also while not yet set)
    delete_ok,  \* 'I understand deletion & saved ID' checkbox
    extras,     \* st.multiselect widget: additional redact keys
    options,    \* the options the multiselect was last rendered with
    button,     \* 'Finalize & upload' was pressed and starts the current run
    presses,    \* how many times 'Finalize & upload' was pressed
    shown,      \* how far the page of the last run was rendered (0..3)
    preview,    \* what st.json shows in the expander (or Unset)
    grp,        \* local grp of the current run (line 133)
    folder,     \* id returned by the latest get_folder of this run
    files,      \* get_folder: the answer of the list request (line 92)
    drive,      \* remote storage: the set of folders and files under the root
    other,      \* get_folder(grp, ROOT_FOLDER_ID) of another session's run
    analytics   \* the analytics of this run were computed

vars == << rawKey, canon, kpc, data, ppi_set, keys, red, red2, tpc,
           pc, configured, uploaded, platform, donate_box, donate, delete_ok,
           extras, options, button, presses, shown, preview, grp, folder,
           files, drive, other, analytics >>

keyVars  == << rawKey, canon, kpc >>
treeVars == << data, ppi_set, keys, red, red2, tpc >>
appVars  == << pc, configured, uploaded, platform, donate_box, donate,
               delete_ok, extras, options, button, presses, shown, preview,
               grp, folder, files, drive, other, analytics >>

----------------------------------------------------------------------------
(* Characters and the str methods the code uses.                           *)
(*                                                                         *)
(* A key or a text of the document is the sequence of the code points of   *)
(* its characters; Txt writes one from its ASCII spelling. The characters  *)
(* of the model are Chars: tab, newline, printable ASCII, the Latin-1      *)
(* supplement and eleven more that the case mappings of these lead to or   *)
(* that show what ASCII and Latin-1 do not: a title case or lower case of  *)
(* two characters, an uncased combining mark, the characters that          *)
(* re.IGNORECASE takes for 'i' and 's'. On a code point outside Chars the  *)
(* case and digit operators have no value.                                 *)

Char(s, i) == SubSeq(s, i, i)

CharsOf(s) == {Char(s, i) : i \in 1..Len(s)}

\* The ASCII characters 32..95 and 97..126, in order.
AsciiLow  == " !\"#$%&'()*+,-./0123456789:;<=>?@ABCDEFGHIJKLMNOPQRSTUVWXYZ[\\]^_"
AsciiHigh == "abcdefghijklmnopqrstuvwxyz{|}~"

\* ord(c).
Ord ==
    [c \in CharsOf(AsciiLow) |-> 31 + (CHOOSE i \in 1..Len(AsciiLow) : Char(AsciiLow, i) = c)]
        @@ [c \in CharsOf(AsciiHigh) |->
                96 + (CHOOSE i \in 1..Len(AsciiHigh) : Char(AsciiHigh, i) = c)]
        @@ ("\t" :> 9) @@ ("\n" :> 10)

\* chr(n) of a printable ASCII code point.
Chr ==
    [n \in (32..95) \cup (97..126) |->
        IF n < 96 THEN Char(AsciiLow, n - 31) ELSE Char(AsciiHigh, n - 96)]

\* The str spelled lit.
Txt(lit) == [i \in 1..Len(lit) |-> Ord[Char(lit, i)]]

Colon   == 58
Newline == 10

\* U+0130 I with dot above, U+0131 dotless i, U+0178 Y with diaeresis,
\* U+017F long s, U+01F0 j with caron, U+02BE modifier right half ring,
\* U+0307 combining dot above, U+030C combining caron, U+039C capital mu,
\* U+03BC small mu, U+1E9A a with right half ring.
MoreChars == {304, 305, 376, 383, 496, 702, 775, 780, 924, 956, 7834}

Chars ==
    (({9, 10} \cup (32..95)) \cup (97..126)) \cup ((161..255) \ {173}) \cup MoreChars

\* The characters with the Unicode property Cased: the letters, the ordinal
\* indicators U+00AA and U+00BA, the micro sign U+00B5.
CasedChars ==
    ((65..90) \cup (97..122)) \cup {170, 181, 186} \cup ((192..255) \ {215, 247})
        \cup {304, 305, 376, 383, 496, 924, 956, 7834}

\* The characters str.isdigit() accepts: the decimal digits and the
\* superscript digits U+00B2, U+00B3, U+00B9.
DigitChars == (48..57) \cup {178, 179, 185}

IsCased(c) == CASE c \in Chars -> c \in CasedChars

\* str.lower() of one character.
Lower(c) ==
    CASE c \in Chars ->
        IF c \in (65..90) \cup ((192..222) \ {215}) THEN << c + 32 >>
        ELSE IF c = 304 THEN << 105, 775 >>
        ELSE IF c = 376 THEN << 255 >>
        ELSE IF c = 924 THEN << 956 >>
        ELSE << c >>

\* The title case of one character, as str.title() takes it.
TitleChar(c) ==
    CASE c \in Chars ->
        IF c \in (97..122) \cup ((224..254) \ {247}) THEN << c - 32 >>
        ELSE IF c = 181 THEN << 924 >>
        ELSE IF c = 223 THEN << 83, 115 >>
        ELSE IF c = 255 THEN << 376 >>
        ELSE IF c = 305 THEN << 73 >>
        ELSE IF c = 383 THEN << 83 >>
        ELSE IF c = 496 THEN << 74, 780 >>
        ELSE IF c = 956 THEN << 924 >>
        ELSE IF c = 7834 THEN << 65, 702 >>
        ELSE << c >>

\* The lower case of one character as the re module takes it: one character.
SreLower(c) == IF c = 304 THEN 105 ELSE Lower(c)[1]

\* Variant: str.lower() in place of str.title().
RECURSIVE Title_lower(_)
Title_lower(s) ==
    IF Len(s) = 0 THEN << >>
    ELSE Lower(s[1]) \o Title_lower(Tail(s))

\* str.title(): a character that follows a cased character is lower-cased,
\* every other character is title-cased (an uncased one is its own lower
\* and title case).
RECURSIVE TitleFrom(_, _, _)
TitleFrom(s, i, prevCased) ==
    IF i > Len(s) THEN << >>
    ELSE LET d == IF prevCased THEN Lower(s[i]) ELSE TitleChar(s[i])
         IN  d \o TitleFrom(s, i + 1, IsCased(s[i]))

Title(s) == TitleFrom(s, 1, FALSE)

\* k.split(':', 1)[0]: the text before the first colon, all of k without one.
FirstColon(s) ==
    IF \E i \in 1..Len(s) : s[i] = Colon
    THEN CHOOSE i \in 1..Len(s) :
            /\ s[i] = Colon
            /\ \A j \in 1..(i - 1) : s[j] # Colon
    ELSE 0

SplitHead(s) == IF FirstColon(s) = 0 THEN s ELSE SubSeq(s, 1, FirstColon(s) - 1)

\* Variant: only the last character is looked at (one colon removed at most).
RStripColon_once(s) ==
    IF Len(s) > 0 /\ s[Len(s)] = Colon
    THEN SubSeq(s, 1, Len(s) - 1)
    ELSE s

\* k.rstrip(':'): every trailing colon is removed.
RECURSIVE RStripColon(_)
RStripColon(s) ==
    IF Len(s) > 0 /\ s[Len(s)] = Colon
    THEN RStripColon(SubSeq(s, 1, Len(s) - 1))
    ELSE s

\* str.isdigit(): non-empty and every character a digit.
IsDigit(s) ==
    /\ Len(s) > 0
    /\ \A i \in 1..Len(s) : CASE s[i] \in Chars -> s[i] \in DigitChars

----------------------------------------------------------------------------
(* Regular expressions of KEY_PATTERNS: a pattern is a sequence of tokens, *)
(* a literal character or '.', each with a quantifier 1, ?, * or +.        *)

Lit(lit)  == [i \in 1..Len(lit) |-> [kind |-> "lit", ch |-> Ord[Char(lit, i)], q |-> "1"]]
Opt(c)    == << [kind |-> "lit", ch |-> Ord[c], q |-> "?"] >>
AnyStar   == << [kind |-> "any", ch |-> 0, q |-> "*"] >>
AnyPlus   == << [kind |-> "any", ch |-> 0, q |-> "+"] >>

KEY_PATTERNS ==
    << Lit("Chat History with ") \o AnyPlus,
       Lit("comment") \o Opt("s") \o Lit(":") \o AnyStar,
       Lit("replie")  \o Opt("s") \o Lit(":") \o AnyStar,
       Lit("post")    \o Opt("s") \o Lit(":") \o AnyStar,
       Lit("story:")  \o AnyStar >>

\* The characters re.IGNORECASE takes for a lower-case letter besides the
\* ones that lower-case to it: dotless i for 'i', long s for 's', and the
\* other way round; the micro sign and the small mu for each other.
ExtraCases ==
    (105 :> {305}) @@ (115 :> {383}) @@ (181 :> {956})
        @@ (305 :> {105}) @@ (383 :> {115}) @@ (956 :> {181})

\* One token against one character under re.IGNORECASE: the lower case of
\* the character is the lower case of the literal or one of its extra
\* cases; '.' matches every character but a newline.
TokMatches(tok, c) ==
    IF tok.kind = "any" THEN c # Newline
    ELSE LET lo == SreLower(tok.ch)
         IN  \/ SreLower(c) = lo
             \/ lo \in DOMAIN ExtraCases /\ SreLower(c) \in ExtraCases[lo]

\* Tokens i.. of pat match some prefix of s[j..] (backtracking).
RECURSIVE MatchFrom(_, _, _, _)
MatchFrom(pat, i, s, j) ==
    IF i > Len(pat) THEN TRUE
    ELSE LET tok == pat[i]
             ok  == j <= Len(s) /\ TokMatches(tok, s[j])
         IN  CASE tok.q = "1" -> ok /\ MatchFrom(pat, i + 1, s, j + 1)
               [] tok.q = "?" -> \/ ok /\ MatchFrom(pat, i + 1, s, j + 1)
                                 \/ MatchFrom(pat, i + 1, s, j)
               [] tok.q = "*" -> \/ ok /\ MatchFrom(pat, i, s, j + 1)
                                 \/ MatchFrom(pat, i + 1, s, j)
               [] tok.q = "+" -> ok /\ (\/ MatchFrom(pat, i, s, j + 1)
                                        \/ MatchFrom(pat, i + 1, s, j + 1))

\* Variant: re.search, the pattern may match at any position of k.
ReMatch_search(pat, k) == \E j \in 1..(Len(k) + 1) : MatchFrom(pat, 1, k, j)

\* re.match(pat, k, flags=re.IGNORECASE): anchored at the start of k only.
ReMatch(pat, k) == MatchFrom(pat, 1, k, 1)

----------------------------------------------------------------------------
(* sanitize_key, lines 65-69.                                              *)

\* Variant of the loop that returns from its first iteration whether or not
\* the rule matched: only pats[1] is ever tried.
RECURSIVE SanitizeFrom_firstOnly(_, _, _)
SanitizeFrom_firstOnly(pats, i, k) ==
    IF i > Len(pats) THEN RStripColon(k)
    ELSE IF ReMatch(pats[i], k) THEN Title(SplitHead(k))
    ELSE RStripColon(k)

\* The for loop over the rules from position i on, then the fall-through.
RECURSIVE SanitizeFrom(_, _, _)
SanitizeFrom(pats, i, k) ==
    IF i > Len(pats) THEN RStripColon(k)
    ELSE IF ReMatch(pats[i], k) THEN Title(SplitHead(k))
    ELSE SanitizeFrom(pats, i + 1, k)

SanitizeWith(pats, k) == SanitizeFrom(pats, 1, k)

sanitize_key(k) == SanitizeWith(KEY_PATTERNS, k)

----------------------------------------------------------------------------
(* Inputs of the key sanitizer.                                            *)

MaxKeyLen == 3

KeyAlphabet == {Ord["a"], Ord["B"], Ord[":"], Ord["1"]}

RECURSIVE StringsUpTo(_)
StringsUpTo(n) ==
    IF n = 0 THEN {<< >>}
    ELSE LET P == StringsUpTo(n - 1)
         IN  P \cup {Append(s, c) : s \in P, c \in KeyAlphabet}

AsciiKeys ==
    { "comments: foo", "Comments:", "Comment", "comment:", "COMMENTS:x",
      "plain_key:", "plain_key", "k::", "my comments: x", "xposts:",
      "Chat History with Alice:", "chat history with bob", "Chat History with ",
      "Chat History with \n", "chat history", "replies: a b", "replie:", "reply:",
      "POSTS: hello world", "post:", "posts", "story: x:y", "stories:", "Story:",
      "username", "userName", "0", "12", "1:", ":", "comments:\nfoo" }

\* Keys with characters outside ASCII, each with its spelling.
UnicodeKeys ==
    { Txt("chat history with ") \o << 233, 97 >>,             \* e acute, a
      Txt("CHAT HISTORY WITH ") \o << 201 >> \o Txt("COLE:x"), \* E acute
      Txt("chat history with stra") \o << 223, 101 >>,        \* sharp s, e
      Txt("chat history with ") \o << 223, 97 >>,
      Txt("chat history with ") \o << 255 >>,                 \* y diaeresis
      Txt("chat history with ") \o << 181, 109 >>,            \* micro sign, m
      Txt("chat history with ") \o << 7834, 97 >>,            \* U+1E9A, a
      Txt("Chat History With A") \o << 702, 97 >>,            \* U+02BE, a
      Txt("chat history with ") \o << 496, 97 >>,             \* U+01F0, a
      Txt("chat history with a") \o << 304, 97 >>,            \* U+0130, a
      Txt("chat h") \o << 305 >> \o Txt("story with x"),       \* dotless i
      << 383 >> \o Txt("tory:a"),                             \* long s
      Txt("comment") \o << 383 >> \o Txt(": x"),
      Txt("COMMENTS:") \o << 233 >>,
      Txt("Posts:") \o << 181 >>,
      << 201 >> \o Txt("COLE:"),
      << 178 >>,                                              \* superscript 2
      << 49, 178, 58 >> }

SampleKeys == {Txt(k) : k \in AsciiKeys} \cup UnicodeKeys

RawKeys == SampleKeys \cup StringsUpTo(MaxKeyLen)

KeyInit ==
    /\ rawKey \in RawKeys
    /\ canon = << >>
    /\ kpc = "call"

\* A call canon = sanitize_key(rawKey).
SanitizeCall ==
    /\ kpc = "call"
    /\ canon' = sanitize_key(rawKey)
    /\ kpc' = "ret"
    /\ UNCHANGED rawKey

KeyNext == SanitizeCall /\ UNCHANGED << treeVars, appVars >>

----------------------------------------------------------------------------
(* JSON values as json.loads builds them.                                  *)

Str(x)  == [t |-> "str", s |-> x]
Num(x)  == [t |-> "num", n |-> x]
Arr(xs) == [t |-> "arr", items |-> xs]
Obj(es) == [t |-> "obj", ents |-> es]

Unset == [t |-> "unset"]

\* A str and a dict with their texts and keys spelled in ASCII.
StrA(lit) == Str(Txt(lit))
ObjA(es)  == Obj([i \in 1..Len(es) |-> << Txt(es[i][1]), es[i][2] >>])

\* The strs spelled by the members of lits.
TxtSet(lits) == {Txt(k) : k \in lits}

REDACTED == StrA("REDACTED")

\* d[k] = v on a dict held as its sequence of items: an existing key keeps
\* its position and takes the new value, a new key goes to the end.
DictSet(ents, k, v) ==
    IF \E i \in 1..Len(ents) : ents[i][1] = k
    THEN [i \in 1..Len(ents) |-> IF ents[i][1] = k THEN << k, v >> ELSE ents[i]]
    ELSE Append(ents, << k, v >>)

DictKeys(ents) == {ents[i][1] : i \in 1..Len(ents)}

----------------------------------------------------------------------------
(* extract_keys, lines 71-80.                                              *)

RECURSIVE extract_keys(_)

\* Variant: the raw key is added, not its canonical form.
EntryKeys_raw(k, v) ==
    (IF ~IsDigit(sanitize_key(k)) THEN {k} ELSE {}) \cup extract_keys(v)

\* Lines 75-77: what one item (k, v) of a dict adds to keys.
EntryKeys(k, v) ==
    LET sk == sanitize_key(k)
    IN  (IF ~IsDigit(sk) THEN {sk} ELSE {}) \cup extract_keys(v)

extract_keys(obj) ==
    CASE obj.t = "obj" ->
            UNION {EntryKeys(obj.ents[i][1], obj.ents[i][2]) : i \in 1..Len(obj.ents)}
      [] obj.t = "arr" ->
            UNION {extract_keys(obj.items[i]) : i \in 1..Len(obj.items)}
      [] OTHER -> {}

----------------------------------------------------------------------------
(* anonymize, lines 82-87.                                                 *)

RECURSIVE anonymize(_, _)

\* Line 84, the condition: sanitize_key(k) in ppi_set.
Redacts(k, ppi) == sanitize_key(k) \in ppi

\* Variant: only a scalar under a redacted key is replaced, a container
\* under it is walked.
EntryValue_scalarOnly(k, v, ppi) ==
    IF Redacts(k, ppi) /\ v.t \notin {"obj", "arr"} THEN REDACTED
    ELSE anonymize(v, ppi)

\* Line 84, the value of the item built for (k, v).
EntryValue(k, v, ppi) ==
    IF Redacts(k, ppi) THEN REDACTED ELSE anonymize(v, ppi)

\* Lines 84-85, the dict comprehension: the items of obj in order, each
\* stored under its canonical key.
RECURSIVE AnonEnts(_, _, _, _)
AnonEnts(ents, i, acc, ppi) ==
    IF i > Len(ents) THEN acc
    ELSE AnonEnts(ents, i + 1,
                  DictSet(acc, sanitize_key(ents[i][1]),
                          EntryValue(ents[i][1], ents[i][2], ppi)),
                  ppi)

anonymize(obj, ppi) ==
    CASE obj.t = "obj" -> Obj(AnonEnts(obj.ents, 1, << >>, ppi))
      [] obj.t = "arr" ->
            Arr([i \in 1..Len(obj.items) |-> anonymize(obj.items[i], ppi)])
      [] OTHER -> obj

----------------------------------------------------------------------------
(* Inputs of the tree transformer: every JSON value of at most MaxNodes    *)
(* nodes over TreeKeys and Scalars, and some larger documents.             *)

MaxNodes == 3

TreeKeys == TxtSet({"a", "a:", "0", "posts: x"})
Scalars  == {StrA("hi"), Num(5)}

\* The sequences of n distinct keys of TreeKeys.
KeySeqs(n) ==
    {ks \in [1..n -> TreeKeys] : \A i, j \in 1..n : i # j => ks[i] # ks[j]}

\* Gen(n).T[m] is the set of values of exactly m nodes and Gen(n).F[m] the
\* set of sequences of values of m nodes in all, for m in 1..n.
RECURSIVE Gen(_)
Gen(n) ==
    IF n = 0 THEN [T |-> << >>, F |-> << >>]
    ELSE LET g  == Gen(n - 1)
             F0 == [m \in 0..(n - 1) |-> IF m = 0 THEN {<< >>} ELSE g.F[m]]
             KS == [l \in 0..(n - 1) |-> KeySeqs(l)]
             Tn == IF n = 1 THEN Scalars \cup {Arr(<< >>), Obj(<< >>)}
                   ELSE {Arr(f) : f \in F0[n - 1]} \cup
                        UNION {{Obj([i \in 1..Len(f) |-> << ks[i], f[i] >>])
                                    : ks \in KS[Len(f)]} : f \in F0[n - 1]}
             Ts == Append(g.T, Tn)
             Fn == UNION {{<< tr >> \o f : tr \in Ts[m], f \in F0[n - m]} : m \in 1..n}
         IN  [T |-> Ts, F |-> Append(g.F, Fn)]

TreesOfSize == Gen(MaxNodes).T

ExampleDoc ==
    ObjA(<< << "username", StrA("bob") >>,
           << "bio", StrA("hi") >>,
           << "posts", Arr(<< ObjA(<< << "text", StrA("hello") >>,
                                     << "likes", Num(5) >> >>) >>) >> >>)

DigitDoc == ObjA(<< << "0", StrA("a") >>, << "1", StrA("b") >> >>)

\* The key is U+00B2, superscript two.
SuperscriptDoc == Obj(<< << << 178 >>, ObjA(<< << "a", Num(5) >> >>) >> >>)

\* The key ends in U+1E9A and 'a'.
ChatDoc == Obj(<< << Txt("chat history with ") \o << 7834, 97 >>, Num(5) >> >>)

\* The keys end in e acute / E acute and 'a'; the inner key is '1' and
\* superscript two.
AccentDoc ==
    Obj(<< << Txt("chat history with ") \o << 233, 97 >>,
              Obj(<< << << 49, 178 >>, StrA("hi") >> >>) >>,
           << Txt("Chat History With ") \o << 201, 97, 58 >>, Num(5) >> >>)

SampleDocs ==
    { ExampleDoc,
      DigitDoc,
      SuperscriptDoc,
      ChatDoc,
      AccentDoc,
      ObjA(<< << "a::", Num(5) >> >>),
      ObjA(<< << "Comments:", ObjA(<< << "Comment", StrA("hi") >> >>) >>,
             << "Comment", Arr(<< StrA("REDACTED") >>) >> >>),
      ObjA(<< << "posts: x", Arr(<< ObjA(<< << "0", ObjA(<< << "a", StrA("hi") >> >>) >> >>),
                                  ObjA(<< << "a:", Num(5) >>,
                                         << "a", ObjA(<< << "bio", StrA("hi") >> >>) >> >>) >>) >>,
             << "Chat History with Alice:", ObjA(<< << "a", Arr(<< Num(5) >>) >> >>) >> >>) }

Trees == SampleDocs \cup UNION {TreesOfSize[n] : n \in 1..MaxNodes}

RedactSets ==
    { TxtSet(A) : A \in { {}, {"a"}, {"0"}, {"Posts"}, {"a:"}, {"a", "Posts"},
                          {"a", "0", "Posts"}, {"username"}, {"Comment", "a"} } }
        \cup { {Txt("Chat History With ") \o << 201, 97 >>} }

TreeInit ==
    /\ data \in Trees
    /\ ppi_set \in RedactSets
    /\ keys = {}
    /\ red = Unset
    /\ red2 = Unset
    /\ tpc = "start"

\* keys = extract_keys(data).
ExtractCall ==
    /\ tpc = "start"
    /\ keys' = extract_keys(data)
    /\ tpc' = "extracted"
    /\ UNCHANGED << data, ppi_set, red, red2 >>

\* red = anonymize(data, ppi_set).
AnonymizeCall ==
    /\ tpc = "extracted"
    /\ red' = anonymize(data, ppi_set)
    /\ tpc' = "redacted"
    /\ UNCHANGED << data, ppi_set, keys, red2 >>

\* A second pass over the result: red2 = anonymize(red, ppi_set).
AnonymizeAgain ==
    /\ tpc = "redacted"
    /\ red2' = anonymize(red, ppi_set)
    /\ tpc' = "again"
    /\ UNCHANGED << data, ppi_set, keys, red >>

TreeNext ==
    \/ ExtractCall /\ UNCHANGED << keyVars, appVars >>
    \/ AnonymizeCall /\ UNCHANGED << keyVars, appVars >>
    \/ AnonymizeAgain /\ UNCHANGED << keyVars, appVars >>

\* Values of the variables a specification does not use.
KeyIdle  == rawKey = << >> /\ canon = << >> /\ kpc = "idle"
TreeIdle == /\ data = Unset /\ ppi_set = {} /\ keys = {}
            /\ red = Unset /\ red2 = Unset /\ tpc = "idle"
AppIdle  == /\ pc = "off" /\ configured = FALSE /\ uploaded = Unset
            /\ platform = "" /\ donate_box = FALSE /\ donate = FALSE
            /\ delete_ok = FALSE /\ extras = {} /\ options = {}
            /\ button = FALSE /\ presses = 0 /\ shown = 0
            /\ preview = Unset /\ grp = "" /\ folder = ""
            /\ files = [listed |-> FALSE, ids |-> {}] /\ drive = {}
            /\ other = [pc |-> "off", name |-> ""]
            /\ analytics = FALSE

InitKey  == KeyInit /\ TreeIdle /\ AppIdle
InitTree == TreeInit /\ KeyIdle /\ AppIdle

SpecKey  == InitKey /\ [][KeyNext]_vars
SpecTree == InitTree /\ [][TreeNext]_vars

----------------------------------------------------------------------------
(* Properties of sanitize_key, checked under SpecKey.                      *)

\* The character c is the lower-case ASCII letter p in either case: p, its
\* capital or another character whose lower or upper case is that letter
\* (long s for 's', dotted capital I and dotless i for 'i'); a p that is not
\* a letter is only itself.
SameLetter(c, p) ==
    IF p \in 97..122
    THEN \/ c \in {p, p - 32}
         \/ p = 115 /\ c = 383
         \/ p = 105 /\ c \in {304, 305}
    ELSE c = p

\* k starts with p, letter case ignored.
StartsWithCI(k, p) ==
    /\ Len(k) >= Len(p)
    /\ \A i \in 1..Len(p) : SameLetter(k[i], p[i])

\* Some rule of KEY_PATTERNS matches k at its start, spelled out rule by rule.
RuleApplies(k) ==
    \/ /\ StartsWithCI(k, Txt("chat history with "))
       /\ Len(k) >= 19
       /\ k[19] # Newline
    \/ \E p \in {"comment:", "comments:", "replie:", "replies:",
                 "post:", "posts:", "story:"} : StartsWithCI(k, Txt(p))

\* C6: sanitize_key applies the pattern transform exactly when a rule matches
\* the raw key at its start (case ignored); the result is then the text
\* before the first colon, title-cased; without a match the transform is not
\* applied; the result is a string for every input, the empty one included.
C6_PatternTransform ==
    kpc = "ret" =>
        /\ canon \in Seq(Chars)
        /\ RuleApplies(rawKey) => canon = Title(SplitHead(rawKey))
        /\ ~RuleApplies(rawKey) => canon = RStripColon(rawKey)
        /\ rawKey = Txt("comments: foo") => canon = Txt("Comments")
        /\ rawKey = Txt("POSTS: hello world") => canon = Txt("Posts")
        /\ rawKey = Txt("chat history with bob") => canon = Txt("Chat History With Bob")
        /\ rawKey = Txt("my comments: x") => canon = rawKey
        /\ rawKey = Txt("chat history with ") \o << 233, 97 >>
              => canon = Txt("Chat History With ") \o << 201, 97 >>
        /\ rawKey = Txt("COMMENTS:") \o << 233 >> => canon = Txt("Comments")
        /\ rawKey = << 383 >> \o Txt("tory:a") => canon = Txt("Story")
        /\ rawKey = << >> => canon = << >>

C6_Witness ==
    kpc = "ret" /\ rawKey = Txt("comments: foo") /\ canon = Txt("Comments")

\* s is made of colons only.
OnlyColons(s) == \A i \in 1..Len(s) : s[i] = Colon

\* C7 (as amended): when no rule matches, sanitize_key removes every
\* trailing colon of the raw key and changes nothing else.
C7_StripAllColons ==
    (kpc = "ret" /\ ~RuleApplies(rawKey)) =>
        /\ Len(canon) <= Len(rawKey)
        /\ canon = SubSeq(rawKey, 1, Len(canon))
        /\ OnlyColons(SubSeq(rawKey, Len(canon) + 1, Len(rawKey)))
        /\ Len(canon) > 0 => canon[Len(canon)] # Colon
        /\ rawKey = Txt("k::") => canon = Txt("k")
        /\ rawKey \in {Txt("plain_key:"), Txt("plain_key")} => canon = Txt("plain_key")

C7_Witness == kpc = "ret" /\ rawKey = Txt("k::") /\ canon = Txt("k")

\* C7 as stated: when no rule matches, at most one trailing colon is
\* removed, so a key ending in two colons keeps one.
C7_StripOneColon ==
    (kpc = "ret" /\ ~RuleApplies(rawKey)) =>
        canon = IF Len(rawKey) > 0 /\ rawKey[Len(rawKey)] = Colon
                THEN SubSeq(rawKey, 1, Len(rawKey) - 1)
                ELSE rawKey

\* C8 (as amended): 'Comments:' sanitizes to 'Comments' and 'Comment' to
\* 'Comment'.
C8_CommentsKeys ==
    kpc = "ret" =>
        /\ rawKey = Txt("Comments:") => canon = Txt("Comments")
        /\ rawKey = Txt("Comment") => canon = Txt("Comment")

C8_Witness ==
    kpc = "ret" /\ rawKey = Txt("Comments:") /\ canon = Txt("Comments")

\* C8 as stated: 'Comments:' and 'Comment' both sanitize to 'Comment'.
C8_BothComment ==
    (kpc = "ret" /\ rawKey \in {Txt("Comments:"), Txt("Comment")})
        => canon = Txt("Comment")

\* The orders in which the rules of KEY_PATTERNS can be listed.
Perms ==
    {p \in [1..Len(KEY_PATTERNS) -> 1..Len(KEY_PATTERNS)] :
        \A i, j \in 1..Len(KEY_PATTERNS) : i # j => p[i] # p[j]}

Reordered(p) == [i \in 1..Len(KEY_PATTERNS) |-> KEY_PATTERNS[p[i]]]

\* C9 (as amended): the rules are tried in list order and the first match
\* returns, but the canonical key of every raw key is the same under every
\* reordering of KEY_PATTERNS.
C9_OrderIrrelevant ==
    kpc = "ret" => \A p \in Perms : SanitizeWith(Reordered(p), rawKey) = canon

C9_Witness ==
    kpc = "ret" /\ rawKey = Txt("replies: a b") /\ canon = Txt("Replies")

\* C9 as stated: the order matters, some raw key has another canonical key
\* when the rules are reordered.
C9_OrderMatters ==
    kpc = "ret" => \E k \in RawKeys : \E p \in Perms :
        SanitizeWith(Reordered(p), k) # sanitize_key(k)

----------------------------------------------------------------------------
(* Properties of the tree transformer, checked under SpecTree.             *)

AfterRedaction == tpc \in {"redacted", "again"}

\* v and every value below it.
RECURSIVE Subtrees(_)
Subtrees(v) ==
    {v} \cup
    CASE v.t = "obj" -> UNION {Subtrees(v.ents[i][2]) : i \in 1..Len(v.ents)}
      [] v.t = "arr" -> UNION {Subtrees(v.items[i]) : i \in 1..Len(v.items)}
      [] OTHER -> {}

\* Every key of every object of v.
ObjectKeys(v) == UNION {DictKeys(o.ents) : o \in {x \in Subtrees(v) : x.t = "obj"}}

DecimalDigits == 48..57

\* The digit characters of Chars: the decimal and the superscript digits.
UnicodeDigits == DecimalDigits \cup {178, 179, 185}

\* c is not empty and made of characters of D only.
MadeOf(c, D) == Len(c) > 0 /\ \A i \in 1..Len(c) : c[i] \in D

\* The item of ents that decides the output entry of canonical key c: the
\* last one whose key sanitizes to c.
DecidingEntry(ents, c) ==
    LET I == {i \in 1..Len(ents) : sanitize_key(ents[i][1]) = c}
    IN  ents[CHOOSE i \in I : \A j \in I : j <= i]

\* out is the redaction of in under the set S.
RECURSIVE RedactionOf(_, _, _)
RedactionOf(in, out, S) ==
    CASE in.t = "obj" ->
            /\ out.t = "obj"
            /\ DictKeys(out.ents) = {sanitize_key(k) : k \in DictKeys(in.ents)}
            /\ \A i \in 1..Len(out.ents) :
                  LET c == out.ents[i][1]
                      v == out.ents[i][2]
                  IN  IF c \in S THEN v = REDACTED
                      ELSE RedactionOf(DecidingEntry(in.ents, c)[2], v, S)
      [] in.t = "arr" ->
            /\ out.t = "arr"
            /\ Len(out.items) = Len(in.items)
            /\ \A i \in 1..Len(in.items) : RedactionOf(in.items[i], out.items[i], S)
      [] OTHER -> out = in

ExampleRedacted ==
    ObjA(<< << "username", StrA("REDACTED") >>,
           << "bio", StrA("hi") >>,
           << "posts", Arr(<< ObjA(<< << "text", StrA("hello") >>,
                                     << "likes", Num(5) >> >>) >>) >> >>)

\* C1: in anonymize(T, S) every object entry reached through arrays and
\* non-redacted keys whose canonical key is in S holds exactly 'REDACTED',
\* whatever was under it; every other entry holds the redaction of its
\* original value (of the entry that decides it, where raw keys share a
\* canonical key); scalars are unchanged.
C1_Redaction ==
    AfterRedaction =>
        /\ RedactionOf(data, red, ppi_set)
        /\ (data = ExampleDoc /\ ppi_set = {Txt("username")}) => red = ExampleRedacted

C1_Witness ==
    /\ tpc = "redacted"
    /\ data = ExampleDoc
    /\ ppi_set = {Txt("username")}
    /\ red = ExampleRedacted

\* C2: a second redaction with the same set changes nothing.
C2_Idempotent == tpc = "again" => red2 = red

\* out has the shape of in: one entry per entry, under the canonical key, in
\* the same order; arrays of the same length; below redacted keys anything.
RECURSIVE Isomorphic(_, _, _)
Isomorphic(in, out, S) ==
    CASE in.t = "obj" ->
            /\ out.t = "obj"
            /\ Len(out.ents) = Len(in.ents)
            /\ \A i \in 1..Len(in.ents) :
                  /\ out.ents[i][1] = sanitize_key(in.ents[i][1])
                  /\ out.ents[i][1] \notin S =>
                        Isomorphic(in.ents[i][2], out.ents[i][2], S)
      [] in.t = "arr" ->
            /\ out.t = "arr"
            /\ Len(out.items) = Len(in.items)
            /\ \A i \in 1..Len(in.items) : Isomorphic(in.items[i], out.items[i], S)
      [] OTHER -> out.t = in.t

\* C3: anonymize(T, S) is isomorphic to T at every container level not under
\* a redacted key, also when two raw keys of an object share a canonical key.
C3_Isomorphic == AfterRedaction => Isomorphic(data, red, ppi_set)

\* C4: extract_keys(T) is exactly the set of canonical keys of the object
\* keys at any depth of T, those made of decimal digits only left out; the
\* value under such a key is still walked.
C4_DiscoveredKeys ==
    tpc \in {"extracted", "redacted", "again"} =>
        /\ keys = {c \in {sanitize_key(k) : k \in ObjectKeys(data)} :
                        ~MadeOf(c, DecimalDigits)}
        /\ data = DigitDoc => keys = {}
        /\ data = ExampleDoc => keys = TxtSet({"username", "bio", "posts", "text", "likes"})

\* C5 (as amended): every key of every object of anonymize(T, S) that is not
\* made of digit characters only (the decimal digits and the other digits of
\* str.isdigit) is a member of extract_keys(T).
C5_NonDigitKeysDiscovered ==
    AfterRedaction =>
        \A c \in ObjectKeys(red) : ~MadeOf(c, UnicodeDigits) => c \in keys

C5_Witness ==
    /\ tpc = "redacted"
    /\ data = ObjA(<< << "0", ObjA(<< << "a:", Num(5) >> >>) >> >>)
    /\ ppi_set = {}
    /\ ObjectKeys(red) = {Txt("0"), Txt("a")}
    /\ keys = {Txt("a")}

\* C5 as stated: every key of every object of anonymize(T, S) is a member of
\* extract_keys(T).
C5_AllKeysDiscovered == AfterRedaction => ObjectKeys(red) \subseteq keys

----------------------------------------------------------------------------
(* The script: domain tables, json.dumps, and one run of lines 97-229 per  *)
(* user interaction.                                                       *)

COMMON_PII ==
    TxtSet(
    { "id", "uuid", "name", "full_name", "username", "userName", "email",
      "emailAddress", "phone", "phone_number", "telephoneNumber", "birthDate",
      "date_of_birth", "device_id", "deviceModel", "os_version", "location",
      "hometown", "current_city", "external_url", "created_at",
      "registration_time" })

PlatformNames == << "TikTok", "Instagram", "Facebook", "Twitter", "Reddit" >>

PLATFORMS ==
    [p \in {PlatformNames[i] : i \in 1..Len(PlatformNames)} |->
      TxtSet(
        CASE p = "TikTok" ->
                { "uid", "unique_id", "nickname", "profilePhoto", "profileVideo",
                  "bioDescription", "likesReceived", "From", "Content", "email",
                  "phone_number", "date_of_birth" }
          [] p = "Instagram" ->
                { "username", "full_name", "biography", "profile_picture", "email",
                  "phone_number", "gender", "birthday", "external_url",
                  "account_creation_date" }
          [] p = "Facebook" ->
                { "name", "birthday", "gender", "relationship_status", "hometown",
                  "current_city", "emails", "phones", "friend_count", "friends",
                  "posts", "story", "comments", "likes" }
          [] p = "Twitter" ->
                { "accountId", "username", "accountDisplayName", "description",
                  "website", "location", "avatarMediaUrl", "headerMediaUrl",
                  "email", "in_reply_to_user_id", "source", "retweet_count",
                  "favorite_count" }
          [] p = "Reddit" ->
                { "username", "email", "karma", "subreddit", "author", "body",
                  "selftext", "post_id", "title", "created_utc", "ip_address" })]

\* st.session_state['user_id'], uuid4().hex[:8], set once per session.
user_id == "1a2b3c4d"

ROOT_FOLDER_ID == "root"

\* str(n) of an int, as json.dumps writes it too.
RECURSIVE IntToStr(_)
IntToStr(n) ==
    IF n < 0 THEN "-" \o IntToStr(0 - n)
    ELSE LET d == Char("0123456789", (n % 10) + 1)
         IN  IF n < 10 THEN d ELSE IntToStr(n \div 10) \o d

\* '{:04x}'.format(n) for n below 16^4.
Hex4(n) ==
    LET h(d) == Char("0123456789abcdef", d + 1)
    IN  h(n \div 4096) \o h((n \div 256) % 16) \o h((n \div 16) % 16) \o h(n % 16)

\* What json.dumps writes for one character of a str (ensure_ascii): quote,
\* backslash, newline and tab by their escapes, every other character
\* outside printable ASCII as \uXXXX.
EscapeChar(c) ==
    CASE c \in Chars ->
        IF c = 34 THEN "\\\""
        ELSE IF c = 92 THEN "\\\\"
        ELSE IF c = Newline THEN "\\n"
        ELSE IF c = 9 THEN "\\t"
        ELSE IF c \in DOMAIN Chr THEN Chr[c]
        ELSE "\\u" \o Hex4(c)

\* The body of a JSON string literal as json.dumps writes it.
RECURSIVE JsonEscape(_)
JsonEscape(str) ==
    IF Len(str) = 0 THEN ""
    ELSE EscapeChar(str[1]) \o JsonEscape(Tail(str))

RECURSIVE Pad(_)
Pad(lvl) == IF lvl = 0 THEN "" ELSE "  " \o Pad(lvl - 1)

RECURSIVE JoinLines(_)
JoinLines(parts) ==
    IF Len(parts) = 1 THEN parts[1]
    ELSE parts[1] \o ",\n" \o JoinLines(Tail(parts))

\* json.dumps(v, indent=2), v written at nesting level lvl.
RECURSIVE Dumps(_, _)
Dumps(v, lvl) ==
    CASE v.t = "str" -> "\"" \o JsonEscape(v.s) \o "\""
      [] v.t = "num" -> IntToStr(v.n)
      [] v.t = "arr" ->
            IF Len(v.items) = 0 THEN "[]"
            ELSE "[\n"
                 \o JoinLines([i \in 1..Len(v.items) |->
                        Pad(lvl + 1) \o Dumps(v.items[i], lvl + 1)])
                 \o "\n" \o Pad(lvl) \o "]"
      [] v.t = "obj" ->
            IF Len(v.ents) = 0 THEN "{}"
            ELSE "{\n"
                 \o JoinLines([i \in 1..Len(v.ents) |->
                        Pad(lvl + 1) \o "\"" \o JsonEscape(v.ents[i][1]) \o "\": "
                        \o Dumps(v.ents[i][2], lvl + 1)])
                 \o "\n" \o Pad(lvl) \o "}"

\* str.replace(old, new): every occurrence, left to right.
RECURSIVE ReplaceFrom(_, _, _, _)
ReplaceFrom(str, i, old, new) ==
    IF i > Len(str) THEN ""
    ELSE IF i + Len(old) - 1 <= Len(str) /\ SubSeq(str, i, i + Len(old) - 1) = old
         THEN new \o ReplaceFrom(str, i + Len(old), old, new)
         ELSE Char(str, i) \o ReplaceFrom(str, i + 1, old, new)

\* Line 130.
Fname(file) ==
    ReplaceFrom(user_id \o "_" \o platform \o "_" \o file.name, 1, ".json.json", ".json")

\* The files the user can upload: kind "json" holds one JSON document, kind
\* "ndjson" one document per line (body is the list of them), kind "bad" is
\* neither.
NoFile == [name |-> "", kind |-> "none", body |-> Unset]

NdjsonLines ==
    Arr(<< ObjA(<< << "username", StrA("bob") >> >>),
           Obj(<< << Txt("a"), Num(5) >>,
                  << Txt("a:"), StrA("hi") >>,
                  << Txt("likes"), Arr(<< Num(-1), Num(0), Num(-30) >>) >>,
                  << Txt("chat history with ") \o << 233, 97 >>,
                     Str(Txt("\"stra") \o << 223, 101, 9, 178, 34 >>) >> >>) >>)

Files ==
    { [name |-> "export.json", kind |-> "json", body |-> ExampleDoc],
      [name |-> "posts.json.json", kind |-> "ndjson", body |-> NdjsonLines],
      [name |-> "notes.json", kind |-> "bad", body |-> Unset] }

\* The discovered keys the model's user may add to the redaction set.
ExtraChoices == {Txt("bio")}

\* The session is followed until the run of its MaxPresses-th press of
\* 'Finalize & upload' has ended.
MaxPresses == 1

\* Drive gives every folder and file an id of its own, also under a name
\* already taken in the same folder.
NewId(name, parent, d) ==
    parent \o "/" \o name \o "#"
    \o IntToStr(Cardinality({e \in d : e.name = name /\ e.parent = parent}) + 1)

FolderRec(name, parent, d) ==
    [kind |-> "folder", name |-> name, parent |-> parent,
     id |-> NewId(name, parent, d), content |-> ""]

FileRec(name, parent, content, d) ==
    [kind |-> "file", name |-> name, parent |-> parent,
     id |-> NewId(name, parent, d), content |-> content]

\* Line 90: the ids of the folders called name under parent.
Matching(name, parent, d) ==
    {e.id : e \in {f \in d : f.kind = "folder" /\ f.name = name /\ f.parent = parent}}

\* files of get_folder before the list request has answered.
NotListed == [listed |-> FALSE, ids |-> {}]

\* Line 133: the two folders under the root.
Groups == {"research_donations", "non_donations"}

locals == << data, ppi_set, keys, red, preview, grp, folder, files, analytics >>

AppInit ==
    /\ pc = "config"
    /\ configured \in BOOLEAN
    /\ uploaded = NoFile
    /\ platform = PlatformNames[1]
    /\ donate_box = FALSE
    /\ donate = FALSE
    /\ delete_ok = FALSE
    /\ extras = {}
    /\ options = {}
    /\ button = FALSE
    /\ presses = 0
    /\ shown = 0
    /\ preview = Unset
    /\ grp = ""
    /\ folder = ""
    /\ files = NotListed
    /\ drive = {}
    /\ other = [pc |-> "line 91", name |-> ""]
    /\ analytics = FALSE
    /\ data = Unset /\ ppi_set = {} /\ keys = {} /\ red = Unset
    /\ red2 = Unset /\ tpc = "idle"

\* An interaction reruns the script from the top with fresh locals; the
\* session state stays.
Rerun ==
    /\ pc = "idle"
    /\ pc' = "config"
    /\ data' = Unset /\ ppi_set' = {} /\ keys' = {} /\ red' = Unset
    /\ preview' = Unset /\ grp' = "" /\ folder' = "" /\ files' = NotListed
    /\ analytics' = FALSE
    /\ UNCHANGED << configured, donate, options, shown, drive, other >>

\* The run ends (st.stop, an exception or the last line) with the page
\* rendered up to level: 1 sidebar and uploader, 2 checkboxes, 3 all.
\* Streamlit drops the state of the widgets the run did not render; the
\* keys of st.session_state are no widgets and keep their values.
EndRun(level) ==
    /\ pc' = "idle"
    /\ shown' = level
    /\ button' = FALSE
    /\ platform' = IF level >= 1 THEN platform ELSE PlatformNames[1]
    /\ uploaded' = IF level >= 1 THEN uploaded ELSE NoFile
    /\ donate_box' = IF level >= 2 THEN donate_box ELSE FALSE
    /\ delete_ok' = IF level >= 2 THEN delete_ok ELSE FALSE
    /\ extras' = IF level >= 3 THEN extras ELSE {}
    /\ options' = IF level >= 3 THEN options ELSE {}

Continue(next) ==
    /\ pc' = next
    /\ UNCHANGED << uploaded, platform, donate_box, delete_ok, extras, options,
                    button, shown >>

(* User interactions, between two runs. *)

\* Line 107. The uploader's label names the platform (line 111), so the
\* uploader of the new platform is a new, empty widget.
SelectPlatform ==
    /\ presses < MaxPresses
    /\ shown >= 1
    /\ \E p \in DOMAIN PLATFORMS :
          /\ p # platform
          /\ platform' = p
    /\ uploaded' = NoFile
    /\ Rerun
    /\ UNCHANGED << donate_box, delete_ok, extras, button, presses >>

\* Line 111: the user uploads, replaces or removes the file.
UploadFile ==
    /\ presses < MaxPresses
    /\ shown >= 1
    /\ \E f \in Files \cup {NoFile} :
          /\ f # uploaded
          /\ uploaded' = f
    /\ Rerun
    /\ UNCHANGED << platform, donate_box, delete_ok, extras, button, presses >>

\* Line 122: the user ticks or unticks the checkbox.
ToggleDonate ==
    /\ presses < MaxPresses
    /\ shown >= 2
    /\ donate_box' = ~donate_box
    /\ Rerun
    /\ UNCHANGED << uploaded, platform, delete_ok, extras, button, presses >>

\* Line 123.
ToggleDeleteOk ==
    /\ presses < MaxPresses
    /\ shown >= 2
    /\ delete_ok' = ~delete_ok
    /\ Rerun
    /\ UNCHANGED << uploaded, platform, donate_box, extras, button, presses >>

\* Line 127: the user picks among the discovered keys.
SelectExtras ==
    /\ presses < MaxPresses
    /\ shown = 3
    /\ \E E \in SUBSET (options \cap ExtraChoices) :
          /\ E # extras
          /\ extras' = E
    /\ Rerun
    /\ UNCHANGED << uploaded, platform, donate_box, delete_ok, button, presses >>

\* Line 132: the button is pressed.
PressFinalize ==
    /\ shown = 3
    /\ presses < MaxPresses
    /\ presses' = presses + 1
    /\ button' = TRUE
    /\ Rerun
    /\ UNCHANGED << uploaded, platform, donate_box, delete_ok, extras >>

(* The steps of one run. *)

\* Lines 37-39.
CheckConfig ==
    /\ pc = "config"
    /\ IF configured THEN Continue("upload") ELSE EndRun(0)
    /\ UNCHANGED << configured, donate, presses, drive, other, locals >>

\* Lines 98-114.
CheckUpload ==
    /\ pc = "upload"
    /\ IF uploaded # NoFile THEN Continue("parse") ELSE EndRun(1)
    /\ UNCHANGED << configured, donate, presses, drive, other, locals >>

\* Lines 117-120: json.loads of the text, else of each of its lines; a
\* file that is neither raises and ends the run.
ParseFile ==
    /\ pc = "parse"
    /\ IF uploaded.kind \in {"json", "ndjson"}
       THEN /\ data' = uploaded.body
            /\ Continue("consent")
       ELSE /\ data' = data
            /\ EndRun(1)
    /\ UNCHANGED << configured, donate, presses, drive, other, ppi_set, keys, red,
                    preview, grp, folder, files, analytics >>

\* Variant: the run goes on without the checkbox.
CheckConsent_skip ==
    /\ pc = "consent"
    /\ donate' = donate_box
    /\ Continue("redact")
    /\ UNCHANGED << configured, presses, drive, other, locals >>

\* Lines 122-126: the value of the first checkbox goes to the session
\* state, the second one decides whether the run goes on.
CheckConsent ==
    /\ pc = "consent"
    /\ donate' = donate_box
    /\ IF delete_ok THEN Continue("redact") ELSE EndRun(2)
    /\ UNCHANGED << configured, presses, drive, other, locals >>

\* Lines 127-128. A multiselect rendered with other options than the last
\* time is a new widget with nothing selected.
Redact ==
    /\ pc = "redact"
    /\ keys' = extract_keys(data)
    /\ options' = keys'
    /\ extras' = IF options = keys' THEN extras ELSE {}
    /\ ppi_set' = (COMMON_PII \cup PLATFORMS[platform]) \cup extras'
    /\ red' = anonymize(data, ppi_set')
    /\ pc' = "preview"
    /\ UNCHANGED << configured, donate, presses, drive, other, data, preview, grp,
                    folder, files, analytics, uploaded, platform, donate_box,
                    delete_ok, button, shown >>

\* Lines 129-131: the expander with st.json(red), the download button.
Preview ==
    /\ pc = "preview"
    /\ preview' = red
    /\ Continue("button")
    /\ UNCHANGED << configured, donate, presses, drive, other, data, ppi_set, keys,
                    red, grp, folder, files, analytics >>

\* Lines 132-133.
CheckButton ==
    /\ pc = "button"
    /\ IF button
       THEN /\ grp' = IF donate THEN "research_donations" ELSE "non_donations"
            /\ folder' = ROOT_FOLDER_ID
            /\ Continue("gid")
       ELSE /\ grp' = grp
            /\ folder' = folder
            /\ EndRun(3)
    /\ UNCHANGED << configured, donate, presses, drive, other, data, ppi_set, keys,
                    red, preview, files, analytics >>

\* Lines 134-137: the four get_folder calls, each under the folder the call
\* before it returned.
FolderSteps == << "gid", "uid", "pid", "rid", "file" >>

StepName(step) ==
    CASE step = "gid" -> grp
      [] step = "uid" -> user_id
      [] step = "pid" -> platform
      [] step = "rid" -> "redacted"

StepAfter(step) ==
    FolderSteps[(CHOOSE i \in 1..4 : FolderSteps[i] = step) + 1]

\* get_folder, lines 90-92: the list request is answered with the folders
\* of that name that exist under parent at that moment.
GetFolderList ==
    /\ pc \in {"gid", "uid", "pid", "rid"}
    /\ ~files.listed
    /\ files' = [listed |-> TRUE, ids |-> Matching(StepName(pc), folder, drive)]
    /\ Continue(pc)
    /\ UNCHANGED << configured, donate, presses, drive, other, data, ppi_set, keys,
                    red, preview, grp, folder, analytics >>

\* get_folder, line 93: the answer holds a folder; the first one is
\* returned, in the order Drive listed them.
GetFolderFound ==
    /\ pc \in {"gid", "uid", "pid", "rid"}
    /\ files.listed
    /\ \E id \in files.ids : folder' = id
    /\ files' = NotListed
    /\ Continue(StepAfter(pc))
    /\ UNCHANGED << configured, donate, presses, drive, other, data, ppi_set, keys,
                    red, preview, grp, analytics >>

\* get_folder, lines 94-95: the answer was empty, a folder is created,
\* whatever Drive holds by now.
GetFolderCreate ==
    /\ pc \in {"gid", "uid", "pid", "rid"}
    /\ files.listed
    /\ files.ids = {}
    /\ drive' = drive \cup {FolderRec(StepName(pc), folder, drive)}
    /\ folder' = FolderRec(StepName(pc), folder, drive).id
    /\ files' = NotListed
    /\ Continue(StepAfter(pc))
    /\ UNCHANGED << configured, donate, presses, other, data, ppi_set, keys,
                    red, preview, grp, analytics >>

\* Line 138: the bytes handed to the upload.
FileContent == Dumps(red, 0)

\* Lines 138-140.
CreateFile ==
    /\ pc = "file"
    /\ drive' = drive \cup {FileRec(Fname(uploaded), folder, FileContent, drive)}
    /\ Continue("analytics")
    /\ UNCHANGED << configured, donate, presses, other, locals >>

\* Lines 91, 95 and 139: a request to Drive raises (network, quota); the
\* exception ends the run with what was created so far.
RequestRaises ==
    /\ \/ pc \in {"gid", "uid", "pid", "rid"} /\ (files.listed => files.ids = {})
       \/ pc = "file"
    /\ EndRun(3)
    /\ UNCHANGED << configured, donate, presses, drive, other, locals >>

\* Lines 141-229. red.get (line 145) and red.items (line 219) raise when red
\* is not a dict; what pandas does with the rest is not modelled: the pass
\* completes or raises.
Analytics ==
    /\ pc = "analytics"
    /\ \/ analytics' = FALSE
       \/ red.t = "obj" /\ analytics' = TRUE
    /\ EndRun(3)
    /\ UNCHANGED << configured, donate, presses, drive, other, data, ppi_set, keys,
                    red, preview, grp, folder, files >>

\* Another browser session runs the same script on the same Drive root at
\* the same time and reaches line 134: the list request of its get_folder
\* (lines 90-93); it goes on to create the folder if the answer is empty.
OtherList ==
    /\ configured
    /\ other.pc = "line 91"
    /\ \E g \in Groups :
          other' = IF Matching(g, ROOT_FOLDER_ID, drive) = {}
                   THEN [pc |-> "line 95", name |-> g]
                   ELSE [pc |-> "done", name |-> g]
    /\ UNCHANGED << pc, configured, uploaded, platform, donate_box, donate,
                    delete_ok, extras, options, button, presses, shown, drive,
                    locals >>

\* The create request of the other session's get_folder (line 95).
OtherCreate ==
    /\ configured
    /\ other.pc = "line 95"
    /\ drive' = drive \cup {FolderRec(other.name, ROOT_FOLDER_ID, drive)}
    /\ other' = [pc |-> "done", name |-> other.name]
    /\ UNCHANGED << pc, configured, uploaded, platform, donate_box, donate,
                    delete_ok, extras, options, button, presses, shown, locals >>

OtherSession == OtherList \/ OtherCreate

AppNext ==
    \/ SelectPlatform /\ UNCHANGED << keyVars, red2, tpc >>
    \/ UploadFile /\ UNCHANGED << keyVars, red2, tpc >>
    \/ ToggleDonate /\ UNCHANGED << keyVars, red2, tpc >>
    \/ ToggleDeleteOk /\ UNCHANGED << keyVars, red2, tpc >>
    \/ SelectExtras /\ UNCHANGED << keyVars, red2, tpc >>
    \/ PressFinalize /\ UNCHANGED << keyVars, red2, tpc >>
    \/ CheckConfig /\ UNCHANGED << keyVars, red2, tpc >>
    \/ CheckUpload /\ UNCHANGED << keyVars, red2, tpc >>
    \/ ParseFile /\ UNCHANGED << keyVars, red2, tpc >>
    \/ CheckConsent /\ UNCHANGED << keyVars, red2, tpc >>
    \/ Redact /\ UNCHANGED << keyVars, red2, tpc >>
    \/ Preview /\ UNCHANGED << keyVars, red2, tpc >>
    \/ CheckButton /\ UNCHANGED << keyVars, red2, tpc >>
    \/ GetFolderList /\ UNCHANGED << keyVars, red2, tpc >>
    \/ GetFolderFound /\ UNCHANGED << keyVars, red2, tpc >>
    \/ GetFolderCreate /\ UNCHANGED << keyVars, red2, tpc >>
    \/ CreateFile /\ UNCHANGED << keyVars, red2, tpc >>
    \/ RequestRaises /\ UNCHANGED << keyVars, red2, tpc >>
    \/ Analytics /\ UNCHANGED << keyVars, red2, tpc >>
    \/ OtherList /\ UNCHANGED << keyVars, red2, tpc >>
    \/ OtherCreate /\ UNCHANGED << keyVars, red2, tpc >>

Init == AppInit /\ KeyIdle

Next == AppNext

Spec == Init /\ [][Next]_vars

----------------------------------------------------------------------------
(* Property of the script, checked under Spec.                             *)

\* C10: whenever a run of this session creates a folder or a file in remote
\* storage (a step that changes drive and is not a request of the other
\* session), a document was uploaded and parsed, the consent checkbox is
\* ticked, red is the redaction of the document under COMMON_PII, the
\* platform's keys and the extras, red was shown for preview and Finalize
\* was pressed; a file holds the serialization of red, not of the raw
\* document; analytics are computed only after the file of the run was
\* written.
C10_WriteOnlyFinalized ==
    [][ /\ (drive' # drive /\ ~OtherSession) =>
              /\ uploaded # NoFile
              /\ uploaded.kind \in {"json", "ndjson"}
              /\ data = uploaded.body
              /\ delete_ok
              /\ button
              /\ red = anonymize(data, (COMMON_PII \cup PLATFORMS[platform]) \cup extras)
              /\ preview = red
              /\ ~analytics
              /\ drive \subseteq drive'
              /\ \A e \in drive' \ drive :
                    e.kind = "file" =>
                        /\ e.content = Dumps(red, 0)
                        /\ red # data => e.content # Dumps(data, 0)
        /\ (analytics' /\ ~analytics) =>
              /\ button
              /\ drive' = drive
              /\ \E e \in drive :
                    /\ e.kind = "file"
                    /\ e.name = Fname(uploaded)
                    /\ e.content = Dumps(red, 0)
      ]_vars

C10_Witness ==
    /\ pc = "idle"
    /\ analytics
    /\ delete_ok
    /\ uploaded.name = "export.json"
    /\ extras = {Txt("bio")}
    /\ red # data
    /\ \E e \in drive :
          /\ e.kind = "file"
          /\ e.name = Fname(uploaded)
          /\ e.content = Dumps(red, 0)

====
